---------------------------- MODULE Spec2Model ----------------------------
(***************************************************************************)
(* Model of python/bugs/main.py: the record parser (read_bug_info), the    *)
(* table writer and reader (render_to_csv, read_csv), the lookup-file      *)
(* reader (read_mapping_files), the aggregator (walk_tree, reducer), the   *)
(* functions built from them (import_data, alter_csv, count_bugs,          *)
(* analyze_bugs, dict_to_str) and main.                                    *)
(*                                                                         *)
(* A string is a sequence of one-character strings.  In a Python 2 str     *)
(* the characters are bytes, a byte above 0x7F written "0xNN".  A file is  *)
(* the unicode text codecs.open decodes from it, a character without a     *)
(* literal written "U+XXXX"; the code cuts the text into lines where       *)
(* unicode.splitlines does, which is after a line feed, a carriage return  *)
(* (with the line feed that follows it), and after U+000B, U+000C,         *)
(* U+001C..U+001E and U+0085.  A dict is a function on its key set and a   *)
(* directory is its listing.  A call that raises returns a record with     *)
(* ok = FALSE and the exception's name.                                    *)
(*                                                                         *)
(* The file is Python 2 (it.imap, it.izip, dict.viewitems, string.strip).  *)
(* Two of its functions fail whatever they are given:                      *)
(*   - reducer: its return statement (line 232) is indented by two spaces  *)
(*     under a four-space body, an IndentationError raised when the text   *)
(*     is compiled.  Code that holds reducer does not start: count_bugs    *)
(*     and analyze_bugs, which call it, and main, the program as a whole,  *)
(*     raise IndentationError before they read or print anything.          *)
(*   - render_to_csv: its first statement (line 158) is                    *)
(*     StringIO.StringIO(), with StringIO bound by `from six import        *)
(*     StringIO` to the class itself: AttributeError.  No CSV text is      *)
(*     produced.                                                           *)
(* The other functions are modelled by what their statements do.           *)
(*                                                                         *)
(* read_csv hands csv.reader the unicode lines of codecs.open; csv.reader  *)
(* encodes a line as ASCII, so a line with a character outside ASCII       *)
(* raises UnicodeEncodeError.  Whether `number is not '-'` holds for a     *)
(* parsed cell '-' depends on the interpreter sharing one object among     *)
(* equal one-character strings; both outcomes are kept.                    *)
(***************************************************************************)
EXTENDS Naturals, Sequences, FiniteSets, TLC

VARIABLES
    pc,                \* position of the run: "idle", "walk", "done", "raised"
    op,                \* the function that was called
    bug_info_by_name,  \* the table a function was given or has read
    csv_text,          \* the content of <csv-file>
    in_file,           \* the other input: a record file, a lookup file, a directory, ...
    number_to_freq,    \* count_bugs / analyze_bugs: the frequency map, once read
    care_rate_per_region, \* analyze_bugs: the region-weight map, once read
    gen,               \* walk_tree's generator: what is left to yield
    yielded,           \* how often walk_tree has yielded each triple
    stdout,            \* what has been printed
    result             \* the call's outcome

vars == <<pc, op, bug_info_by_name, csv_text, in_file, number_to_freq,
          care_rate_per_region, gen, yielded, stdout, result>>

-----------------------------------------------------------------------------
(* Bounds of the model.                                                    *)

MaxCells == 3        \* associations (bug, region) -> value in a drawn table
MaxCsvLines == 3     \* pieces of a CSV file read by read_csv
MaxCmdCsvLines == 2  \* the same, for the CSV file of alter, count and analyze
MaxDatLines == 4     \* pieces of a record file
MaxMapLines == 3     \* pieces of a lookup file
MaxDirEntries == 3   \* entries of a data directory

-----------------------------------------------------------------------------
(* Python strings.                                                         *)

\* ord(c) for the characters and bytes the model uses
Ord(c) ==
    CASE c = "\t" -> 9 [] c = "\n" -> 10 [] c = "U+000B" -> 11 [] c = "\f" -> 12
      [] c = "\r" -> 13 [] c = "U+001C" -> 28 [] c = "U+001F" -> 31
      [] c = " " -> 32 [] c = "\"" -> 34
      [] c = "," -> 44 [] c = "-" -> 45 [] c = "0" -> 48 [] c = "1" -> 49
      [] c = "2" -> 50 [] c = "3" -> 51 [] c = "4" -> 52 [] c = "5" -> 53
      [] c = "6" -> 54 [] c = "7" -> 55 [] c = "8" -> 56 [] c = "9" -> 57
      [] c = ":" -> 58 [] c = ";" -> 59 [] c = "R" -> 82 [] c = "a" -> 97
      [] c = "b" -> 98 [] c = "x" -> 120 [] c = "y" -> 121 [] c = "z" -> 122
      [] c = "0xA0" -> 160 [] c = "0xB3" -> 179 [] c = "0xB5" -> 181
      [] c = "0xB8" -> 184 [] c = "0xBD" -> 189 [] c = "0xBE" -> 190
      [] c = "0xD0" -> 208
      [] c = "U+0085" -> 133 [] c = "U+00A0" -> 160
      [] c = "U+0420" -> 1056 [] c = "U+0433" -> 1075 [] c = "U+0435" -> 1077
      [] c = "U+0438" -> 1080 [] c = "U+043D" -> 1085 [] c = "U+043E" -> 1086

\* unichr(n) for the code points the label decodes to
unichr(n) ==
    CASE n = 1056 -> "U+0420" [] n = 1075 -> "U+0433" [] n = 1077 -> "U+0435"
      [] n = 1080 -> "U+0438" [] n = 1085 -> "U+043D" [] n = 1086 -> "U+043E"

\* the text codecs.open(..., encoding="utf-8") decodes from bytes: a byte
\* below 0x80 is its character, a lead byte 0xC0 + h with a continuation
\* byte 0x80 + l is the character 64 * h + l
RECURSIVE utf8_decode(_)
utf8_decode(bytes) ==
    IF bytes = <<>> THEN <<>>
    ELSE IF Ord(Head(bytes)) < 128 THEN <<Head(bytes)>> \o utf8_decode(Tail(bytes))
    ELSE <<unichr(64 * (Ord(bytes[1]) - 192) + (Ord(bytes[2]) - 128))>>
             \o utf8_decode(Tail(Tail(bytes)))

\* unicode.isspace(), the whitespace unicode.strip() removes: the characters
\* U+0009..U+000D, U+001C..U+0020, U+0085 and U+00A0 (the other whitespace
\* characters lie at U+1680 and above, and none is used here)
IsSpace(c) == Ord(c) \in (9..13) \cup (28..32) \cup {133, 160}

\* \s of a pattern compiled without re.UNICODE: space, \t, \n, \v, \f, \r
IsReSpace(c) == Ord(c) \in (9..13) \cup {32}

\* a character unicode.splitlines() ends a line at (the others are U+2028
\* and U+2029)
IsLineBreak(c) == Ord(c) \in (10..13) \cup (28..30) \cup {133}

\* \d of a pattern compiled without re.UNICODE
IsDigit(c) == c \in {"0", "1", "2", "3", "4", "5", "6", "7", "8", "9"}

RECURSIVE lstrip(_)
lstrip(s) == IF s # <<>> /\ IsSpace(Head(s)) THEN lstrip(Tail(s)) ELSE s

RECURSIVE rstrip(_)
rstrip(s) ==
    IF s # <<>> /\ IsSpace(s[Len(s)]) THEN rstrip(SubSeq(s, 1, Len(s) - 1)) ELSE s

\* str.strip()
strip(s) == rstrip(lstrip(s))

\* index of the first c in s, 0 when there is none
RECURSIVE find(_, _, _)
find(s, c, i) ==
    IF i > Len(s) THEN 0 ELSE IF s[i] = c THEN i ELSE find(s, c, i + 1)

\* str.split(sep) for a one-character separator
RECURSIVE split(_, _)
split(s, sep) ==
    LET i == find(s, sep, 1)
    IN  IF i = 0 THEN <<s>>
        ELSE <<SubSeq(s, 1, i - 1)>> \o split(SubSeq(s, i + 1, Len(s)), sep)

\* str.split(sep, 1)
split1(s, sep) ==
    LET i == find(s, sep, 1)
    IN  IF i = 0 THEN <<s>>
        ELSE <<SubSeq(s, 1, i - 1), SubSeq(s, i + 1, Len(s))>>

\* int(n) for a string of decimal digits
RECURSIVE int(_)
int(n) ==
    IF n = <<>> THEN 0
    ELSE 10 * int(SubSeq(n, 1, Len(n) - 1)) + (Ord(n[Len(n)]) - 48)

\* dict(pairs) for a sequence of <<key, value>> pairs: the last pair of a key wins
dict(pairs) ==
    [k \in {pairs[i][1] : i \in DOMAIN pairs} |->
        LET last == CHOOSE i \in DOMAIN pairs :
                        /\ pairs[i][1] = k
                        /\ \A j \in DOMAIN pairs : pairs[j][1] = k => j <= i
        IN  pairs[last][2]]

EmptyDict == <<>>

\* key in dict_ and dict_[key] = value, as one step: dict_[key] = value
setitem(dict_, key, value) ==
    [k \in DOMAIN dict_ \cup {key} |-> IF k = key THEN value ELSE dict_[k]]

\* s.endswith(suffix)
endswith(s, suffix) ==
    Len(suffix) <= Len(s) /\ SubSeq(s, Len(s) - Len(suffix) + 1, Len(s)) = suffix

\* str(n) for a natural number, as "{value}".format(value=n) writes it
RECURSIVE str(_)
str(n) ==
    LET digit == <<"0", "1", "2", "3", "4", "5", "6", "7", "8", "9">>[(n % 10) + 1]
    IN  IF n < 10 THEN <<digit>> ELSE str(n \div 10) \o <<digit>>

\* separator.join(parts)
RECURSIVE join(_, _)
join(separator, parts) ==
    IF parts = <<>> THEN <<>>
    ELSE IF Len(parts) = 1 THEN parts[1]
    ELSE parts[1] \o separator \o join(separator, Tail(parts))

\* the sequences over S of length at most n
SeqsUpTo(S, n) == UNION {[1..k -> S] : k \in 0..n}

RECURSIVE Concat(_)
Concat(ss) == IF ss = <<>> THEN <<>> ELSE Head(ss) \o Concat(Tail(ss))

-----------------------------------------------------------------------------
(* Files opened with codecs.open.                                          *)

\* the line of the file ends after text[i]: at a line break, a carriage
\* return and the line feed after it ending the line together, and at the
\* end of the text
ends_line(text, i) ==
    \/ IsLineBreak(text[i]) /\ ~(text[i] = "\r" /\ i < Len(text) /\ text[i + 1] = "\n")
    \/ i = Len(text)

\* the index at which the line that starts at i ends
RECURSIVE line_end(_, _)
line_end(text, i) == IF ends_line(text, i) THEN i ELSE line_end(text, i + 1)

\* the lines iterating the file gives, each with its terminator
RECURSIVE readlines(_)
readlines(text) ==
    IF text = <<>> THEN <<>>
    ELSE LET e == line_end(text, 1)
         IN  <<SubSeq(text, 1, e)>> \o readlines(SubSeq(text, e + 1, Len(text)))

-----------------------------------------------------------------------------
(* Record parser.                                                          *)

Raise(exc) == [ok |-> FALSE, exc |-> exc]

\* it.dropwhile(lambda line: not line.strip(), fd)
RECURSIVE dropwhile_blank(_)
dropwhile_blank(lines) ==
    IF lines # <<>> /\ strip(Head(lines)) = <<>>
    THEN dropwhile_blank(Tail(lines)) ELSE lines

\* the lines of the generator expression: for line in lines if line.strip()
nonblank(lines) == SelectSeq(lines, LAMBDA line : strip(line) # <<>>)

\* parse_bug_number_per_country with the code left as split(':') returns it
parse_bug_number_per_country_unstripped(line) ==
    LET parts == split1(line, ":")
    IN  IF Len(parts) < 2 THEN Raise("ValueError")
        ELSE LET countries == split(parts[2], ",")
             IN  [ok |-> TRUE,
                  pairs |-> [i \in DOMAIN countries |-> <<strip(countries[i]), parts[1]>>]]

\* parse_bug_number_per_country with a line without colon taken as listing nothing
parse_bug_number_per_country_lenient(line) ==
    LET parts == split1(line, ":")
    IN  IF Len(parts) < 2 THEN [ok |-> TRUE, pairs |-> <<>>]
        ELSE LET countries == split(parts[2], ",")
             IN  [ok |-> TRUE,
                  pairs |-> [i \in DOMAIN countries |->
                                <<strip(countries[i]), strip(parts[1])>>]]

\* parse_bug_number_per_country; the unpacking of split(':', 1) raises
\* ValueError when the line holds no colon
parse_bug_number_per_country(line) ==
    LET parts == split1(line, ":")
    IN  IF Len(parts) < 2 THEN Raise("ValueError")
        ELSE LET number == parts[1]
                 countries == split(parts[2], ",")
             IN  [ok |-> TRUE,
                  pairs |-> [i \in DOMAIN countries |->
                                <<strip(countries[i]), strip(number)>>]]

read_bug_info(dat_file) ==
    LET lines == dropwhile_blank(readlines(dat_file))
    IN  IF lines = <<>> THEN Raise("StopIteration")
        ELSE LET bug_name == strip(Head(lines))
                 data == nonblank(Tail(lines))
                 parsed == [i \in DOMAIN data |-> parse_bug_number_per_country(data[i])]
             IN  IF \E i \in DOMAIN parsed : ~parsed[i].ok THEN Raise("ValueError")
                 ELSE [ok |-> TRUE,
                       name |-> bug_name,
                       number_by_country |->
                           dict(Concat([i \in DOMAIN parsed |-> parsed[i].pairs]))]

-----------------------------------------------------------------------------
(* Lookup-file reader.                                                     *)

\* the length of the run of digits s starts with
RECURSIVE digits_prefix(_, _)
digits_prefix(s, i) ==
    IF i <= Len(s) /\ IsDigit(s[i]) THEN digits_prefix(s, i + 1) ELSE i - 1

\* the end of the run of characters other than "\n" that starts at i
RECURSIVE dot_star(_, _)
dot_star(s, i) ==
    IF i <= Len(s) /\ s[i] # "\n" THEN dot_star(s, i + 1) ELSE i - 1

\* line_re.match(line) for line_re = "(\d+)\s+?(.*)": one or more digits, then
\* one whitespace character (the lazy \s+? takes no more, since (.*) matches
\* whatever follows), then everything up to the end of the line
line_re_match(line) ==
    LET d == digits_prefix(line, 1)
    IN  IF d >= 1 /\ d + 1 <= Len(line) /\ IsReSpace(line[d + 1])
        THEN [matched |-> TRUE,
              n |-> SubSeq(line, 1, d),
              description |-> SubSeq(line, d + 2, dot_star(line, d + 2))]
        ELSE [matched |-> FALSE]

\* parse_line: .groups() of a failed match raises AttributeError
parse_line(line) ==
    LET m == line_re_match(line)
    IN  IF ~m.matched THEN Raise("AttributeError")
        ELSE [ok |-> TRUE, pair |-> <<strip(m.description), int(m.n)>>]

read_mapping_files(path) ==
    LET lines == SelectSeq(readlines(path), LAMBDA line : line # <<>>)
        parsed == [i \in DOMAIN lines |-> parse_line(lines[i])]
    IN  IF \E i \in DOMAIN parsed : ~parsed[i].ok THEN Raise("AttributeError")
        ELSE [ok |-> TRUE, mapping |-> dict([i \in DOMAIN parsed |-> parsed[i].pair])]

-----------------------------------------------------------------------------
(* Table writer.                                                           *)

DEFAULT_CSV_DELIMITER == ";"

\* REGION_CELL_NAME: the UTF-8 bytes of the six Cyrillic letters of the label
REGION_CELL_NAME ==
    <<"0xD0", "0xA0", "0xD0", "0xB5", "0xD0", "0xB3",
      "0xD0", "0xB8", "0xD0", "0xBE", "0xD0", "0xBD">>

\* render_to_csv(bug_info_by_name): the first statement, StringIO.StringIO(),
\* looks up the attribute StringIO on the class six bound to that name and
\* raises AttributeError; no statement after it runs
render_to_csv(table) == Raise("AttributeError")

-----------------------------------------------------------------------------
(* Table reader.                                                           *)

QUOTECHAR == "\""

\* the end-of-line mark csv.reader processes after the characters of each line
EOL == "EOL"

\* the reader at the start of a record
reader_start(rows) ==
    [state |-> "START_RECORD", field |-> <<>>, fields |-> <<>>, rows |-> rows,
     error |-> FALSE]

save_field(r) == [r EXCEPT !.fields = Append(r.fields, r.field), !.field = <<>>]

after_newline(c) == IF c = EOL THEN "START_RECORD" ELSE "EAT_CRNL"

\* csv.reader's step on one character (excel dialect, the given delimiter)
parse_process_char(r, c, delimiter) ==
    LET start_field ==
            IF c \in {"\n", "\r", EOL}
            THEN [save_field(r) EXCEPT !.state = after_newline(c)]
            ELSE IF c = QUOTECHAR THEN [r EXCEPT !.state = "IN_QUOTED_FIELD"]
            ELSE IF c = delimiter THEN [save_field(r) EXCEPT !.state = "START_FIELD"]
            ELSE [r EXCEPT !.field = Append(r.field, c), !.state = "IN_FIELD"]
    IN  CASE r.state = "START_RECORD" ->
                IF c = EOL THEN r
                ELSE IF c \in {"\n", "\r"} THEN [r EXCEPT !.state = "EAT_CRNL"]
                ELSE start_field
          [] r.state = "START_FIELD" -> start_field
          [] r.state = "IN_FIELD" ->
                IF c \in {"\n", "\r", EOL}
                THEN [save_field(r) EXCEPT !.state = after_newline(c)]
                ELSE IF c = delimiter THEN [save_field(r) EXCEPT !.state = "START_FIELD"]
                ELSE [r EXCEPT !.field = Append(r.field, c)]
          [] r.state = "IN_QUOTED_FIELD" ->
                IF c = EOL THEN r
                ELSE IF c = QUOTECHAR THEN [r EXCEPT !.state = "QUOTE_IN_QUOTED_FIELD"]
                ELSE [r EXCEPT !.field = Append(r.field, c)]
          [] r.state = "QUOTE_IN_QUOTED_FIELD" ->
                IF c = QUOTECHAR
                THEN [r EXCEPT !.field = Append(r.field, c), !.state = "IN_QUOTED_FIELD"]
                ELSE IF c = delimiter THEN [save_field(r) EXCEPT !.state = "START_FIELD"]
                ELSE IF c \in {"\n", "\r", EOL}
                THEN [save_field(r) EXCEPT !.state = after_newline(c)]
                ELSE [r EXCEPT !.field = Append(r.field, c), !.state = "IN_FIELD"]
          [] r.state = "EAT_CRNL" ->
                IF c \in {"\n", "\r"} THEN r
                ELSE IF c = EOL THEN [r EXCEPT !.state = "START_RECORD"]
                ELSE [r EXCEPT !.error = TRUE]

\* the end of a line: the EOL mark, and the record is returned when the reader
\* is back at the start of a record
end_line(r, delimiter) ==
    LET q == parse_process_char(r, EOL, delimiter)
    IN  IF q.state = "START_RECORD" /\ ~q.error
        THEN reader_start(Append(q.rows, q.fields)) ELSE q

\* csv.reader over the lines of the file, from character i on
RECURSIVE reader_run(_, _, _, _)
reader_run(r, text, i, delimiter) ==
    IF r.error THEN r
    ELSE IF i > Len(text)
    THEN \* end of input inside a record: the pending field is saved
         IF r.state = "IN_QUOTED_FIELD" \/ r.field # <<>>
         THEN reader_start(Append(r.rows, Append(r.fields, r.field))) ELSE r
    ELSE LET q == parse_process_char(r, text[i], delimiter)
         IN  reader_run(IF ends_line(text, i) /\ ~q.error THEN end_line(q, delimiter) ELSE q,
                        text, i + 1, delimiter)

\* list(csv.reader(fd, delimiter=delimiter))
csv_reader(text, delimiter) == reader_run(reader_start(<<>>), text, 1, delimiter)

\* number is not '-': an identity test of a parsed cell against a literal.
\* It is False for the cell '-' when the interpreter shares one object among
\* equal one-character strings (dash_shared), and True for every other cell.
is_not_dash(number, dash_shared) == ~(dash_shared /\ number = <<"-">>)

\* the assignments bug_info_by_name[bug_name][region_name] = number of one row,
\* in order: izip(bug_names, row[1:]) stops at the shorter of the two
row_assignments(header_names, row, dash_shared) ==
    LET n == IF Len(header_names) < Len(row) - 1 THEN Len(header_names) ELSE Len(row) - 1
        cells == [i \in 1..n |-> <<header_names[i], row[1], row[i + 1]>>]
    IN  SelectSeq(cells, LAMBDA t : is_not_dash(t[3], dash_shared))

\* the table a sequence of assignments <<bug, region, number>> builds
assigned(assignments) ==
    [b \in {assignments[i][1] : i \in DOMAIN assignments} |->
        LET own == SelectSeq(assignments, LAMBDA t : t[1] = b)
        IN  dict([i \in DOMAIN own |-> <<own[i][2], own[i][3]>>])]

\* a character csv.reader can encode as ASCII
IsAscii(c) == Ord(c) < 128

\* the index of the first character of the line that holds text[k]
line_start(text, k) ==
    LET ends == {j \in 1..(k - 1) : ends_line(text, j)}
    IN  IF ends = {} THEN 1 ELSE (CHOOSE j \in ends : \A i \in ends : i <= j) + 1

\* read_csv(csv_file).  csv.reader takes the lines one by one: the first line
\* with a character outside ASCII raises UnicodeEncodeError when it is
\* reached, unless a line before it has raised csv.Error.
read_csv(text, dash_shared) ==
    LET high == {k \in DOMAIN text : ~IsAscii(text[k])}
        first_high == CHOOSE k \in high : \A i \in high : k <= i
        encodable == IF high = {} THEN text
                     ELSE SubSeq(text, 1, line_start(text, first_high) - 1)
        r == csv_reader(encodable, DEFAULT_CSV_DELIMITER)
    IN  IF r.error THEN Raise("Error")
        ELSE IF high # {} THEN Raise("UnicodeEncodeError")
        ELSE IF r.rows = <<>> THEN Raise("StopIteration")
        ELSE LET header == Head(r.rows)
                 header_names == IF header = <<>> THEN <<>> ELSE Tail(header)
                 rows == SelectSeq(Tail(r.rows), LAMBDA row : row # <<>>)
             IN  [ok |-> TRUE,
                  table |-> assigned(Concat([i \in DOMAIN rows |->
                               row_assignments(header_names, rows[i], dash_shared)]))]

-----------------------------------------------------------------------------
(* Aggregator.                                                             *)

\* walk_tree(tree) before its first next(): no name visited yet
walk_tree(tree) == [names |-> DOMAIN tree, cur |-> <<>>, keys |-> {}]

\* walk_tree leaving a sub-tree after its first pair
walk_next_first_only(tree, g) ==
    UNION {{[gen |-> [names |-> g.names \ {n}, cur |-> n, keys |-> {}],
             triple |-> <<n, k, tree[n][k]>>] : k \in DOMAIN tree[n]} :
              n \in g.names}

\* what next() of the generator can do: yield the next pair of the current
\* sub-tree, or move on to a name not visited yet (names whose sub-tree is
\* empty yield nothing and are passed over).  Both dict orders are arbitrary.
walk_next(tree, g) ==
    IF g.keys # {}
    THEN {[gen |-> [g EXCEPT !.keys = @ \ {k}], triple |-> <<g.cur, k, tree[g.cur][k]>>] :
             k \in g.keys}
    ELSE UNION {{[gen |-> [names |-> g.names \ {n}, cur |-> n,
                           keys |-> DOMAIN tree[n] \ {k}],
                  triple |-> <<n, k, tree[n][k]>>] : k \in DOMAIN tree[n]} :
                   n \in g.names}

\* next() raises StopIteration
walk_exhausted(tree, g) == walk_next(tree, g) = {}

\* the failure of a call inside the function `at`
RaisedAt(exc, at) == [ok |-> FALSE, exc |-> exc, at |-> at]

\* the text of reducer does not compile: its return statement is indented
\* less than the body and matches no outer level.  The error is raised when
\* the text is compiled, inside no function.
IndentationError == RaisedAt("IndentationError", "None")

\* reducer(accumulator_fn, bug_info_by_name): it neither calls accumulator_fn
\* nor returns
reducer(accumulator_fn, table) == IndentationError

-----------------------------------------------------------------------------
(* Functions of the commands.                                              *)

\* list_files(root_dir, ext): of the entries os.listdir gives, in its order,
\* the files whose name ends with ext
list_files(root_dir, ext) ==
    SelectSeq(root_dir, LAMBDA entry : entry.isfile /\ endswith(entry.file_, ext))

DATA_FILE_EXT == <<".", "d", "a", "t">>

\* import_data(data_dir): map(read_bug_info, data_files) reads the files in
\* order and stops at the first that raises; dict(...) keeps, for a name that
\* several files give, the region map of the last of them
import_data(data_dir) ==
    LET data_files == list_files(data_dir, DATA_FILE_EXT)
        infos == [i \in DOMAIN data_files |-> read_bug_info(data_files[i].text)]
        failed == {i \in DOMAIN infos : ~infos[i].ok}
    IN  IF failed # {}
        THEN Raise(infos[CHOOSE i \in failed : \A j \in failed : i <= j].exc)
        ELSE [ok |-> TRUE,
              table |-> dict([i \in DOMAIN infos |->
                                <<infos[i].name, infos[i].number_by_country>>])]

\* alter_csv with the record's regions merged into the bug's old entry
alter_csv_merge(text, dat_file, dash_shared) ==
    LET table == read_csv(text, dash_shared)
        info == read_bug_info(dat_file)
        old == IF info.name \in DOMAIN table.table THEN table.table[info.name] ELSE EmptyDict
        new == info.number_by_country
    IN  IF ~table.ok THEN table
        ELSE IF ~info.ok THEN info
        ELSE [ok |-> TRUE,
              table |-> setitem(table.table, info.name,
                                [r \in DOMAIN old \cup DOMAIN new |->
                                    IF r \in DOMAIN new THEN new[r] ELSE old[r]])]

\* alter_csv(csv_file, data_file)
alter_csv(text, dat_file, dash_shared) ==
    LET table == read_csv(text, dash_shared)
        info == read_bug_info(dat_file)
    IN  IF ~table.ok THEN table
        ELSE IF ~info.ok THEN info
        ELSE [ok |-> TRUE,
              table |-> setitem(table.table, info.name, info.number_by_country)]

\* count_bugs(csv_file, freq_file): it calls reducer, whose text does not
\* compile, so it fails before its first statement: no file is read and
\* number_to_freq is not printed
count_bugs(text, freq_file) == IndentationError

\* analyze_bugs(csv_file, coeff_file, regions_file): as count_bugs, it fails
\* before any file is read
analyze_bugs(text, coeff_file, regions_file) == IndentationError

\* dict_to_str(dict_, pairs_separator=...) with the default pair_format
\* "{key}: {value}", for a dict of integers whose items come in `order`
dict_to_str(dict_, order, pairs_separator) ==
    join(pairs_separator,
         [i \in DOMAIN order |-> order[i] \o <<":", " ">> \o str(dict_[order[i]])])

\* main(args), the program run with a command line: main.py holds reducer, so
\* compiling it raises IndentationError before main is entered, whatever the
\* command; nothing is read or printed
main(args) == IndentationError

-----------------------------------------------------------------------------
(* The inputs the functions are run on.                                    *)

BugNames == {<<"a">>, <<"b">>}

Regions == {<<"x">>, <<"x", "y">>, <<"\"", ";">>}

Values == {<<"1">>, <<"2">>, <<"-">>}

\* the table with bug set B whose associations are those of f
TableOf(B, f) ==
    [b \in B |-> [r \in {r \in Regions : <<b, r>> \in DOMAIN f} |-> f[<<b, r>>]]]

\* the tables over the names above with at most n associations
Tables(n) ==
    UNION {UNION {{TableOf(B, f) : B \in {B \in SUBSET BugNames :
                                             \A c \in P : c[1] \in B}} :
                     f \in [P -> Values]} :
              P \in {P \in SUBSET (BugNames \X Regions) : Cardinality(P) <= n}}

\* the orders a dict's keys can be iterated in
Orders(S) == {o \in [1..Cardinality(S) -> S] : \A i, j \in DOMAIN o : o[i] = o[j] => i = j}

\* pieces of record files: a blank line, a form feed and a line feed (two
\* blank lines), two name lines (lines without a colon), the second between
\* a no-break space and a unit separator, and three data lines, one of them
\* ended by a form feed ahead of an empty line, one by a vertical tab ahead
\* of a line that is a file separator and of an empty line
DatLines ==
    {<<" ", "\n">>,
     <<"\f", "\n">>,
     <<" ", "a", " ", "\n">>,
     <<"U+00A0", "b", "U+001F", "\n">>,
     <<"1", ":", "x", "\n">>,
     <<" ", "2", " ", ":", " ", "x", ",", " ", "x", "y", "\f", "\n">>,
     <<"-", ":", "x", "y", "U+000B", "U+001C", "\n">>}

\* the record files of at most n pieces
DatFiles(n) == {Concat(pieces) : pieces \in SeqsUpTo(DatLines, n)}

\* pieces of lookup files: well-formed lines, a line of digits and
\* whitespace, a line of digits, an empty line, lines without leading digits
\* or without whitespace after them, a line whose whitespace is a tab and
\* which a form feed ends, digits and text with a form feed between them (two
\* lines), digits followed by a no-break space, and a line that a next-line
\* character ends
MapLines ==
    {<<"1", " ", "1", "\n">>,
     <<"2", " ", " ", "2", " ", "\n">>,
     <<"3", " ", "1", "\n">>,
     <<"1", "0", " ", "-", "\n">>,
     <<"4", " ", "\n">>,
     <<"5", "\n">>,
     <<"\n">>,
     <<"x", " ", "1", "\n">>,
     <<"2", "x", "\n">>,
     <<"7", "\t", "U+00A0", "z", "\f">>,
     <<"1", "\f", "x", "\n">>,
     <<"8", "U+00A0", "z", "\n">>,
     <<"9", " ", "z", "U+0085">>}

\* the lookup files of at most n pieces
MapFiles(n) == {Concat(pieces) : pieces \in SeqsUpTo(MapLines, n)}

\* pieces of CSV files: headers of one and of two bugs with an ASCII label,
\* the header the writer's label gives, rows of one and of two cells, a row
\* with an absent cell, a row whose region is quoted, the empty line that
\* print adds, and two rows with a form feed between them
CsvLines ==
    {<<"R", ";", "a", "\r", "\n">>,
     <<"R", ";", "a", ";", "b", "\r", "\n">>,
     utf8_decode(REGION_CELL_NAME) \o <<";", "a", ";", "b", "\r", "\n">>,
     <<"x", ";", "1", "\r", "\n">>,
     <<"x", ";", "1", ";", "2", "\r", "\n">>,
     <<"x", "y", ";", "-", ";", "2", "\r", "\n">>,
     <<"\"", "\"", "\"", ";", "\"", ";", "2", ";", "1", "\r", "\n">>,
     <<"\n">>,
     <<"x", ";", "1", "\f", "x", "y", ";", "2", "\n">>}

\* the CSV files of at most n pieces
CsvFiles(n) == {Concat(pieces) : pieces \in SeqsUpTo(CsvLines, n)}

\* the frequency files the commands are run with: one that covers "1" and "2",
\* one that covers every value, one that covers "1" alone, one that is malformed
FreqFiles ==
    {<<"1", " ", "1", "\n"  ,  "2", " ", " ", "2", " ", "\n">>,
     <<"3", " ", "1", "\n"  ,  "0", " ", "2", "\n"  ,  "1", "0", " ", "-", "\n">>,
     <<"1", " ", "1", "\n">>,
     <<"x", " ", "1", "\n">>}

\* the region-weight files analyze is run with
RegionFiles ==
    {<<"2", " ", "x", "\n"  ,  "3", " ", "x", "y", "\n">>,
     <<"\n">>}

\* the record files alter is run with: a record of bug a, a record of bug b
\* without regions, a repeated region and a line ended by a form feed, a file
\* without a name line, a data line without a colon
AlterFiles ==
    {<<" ", "a", " ", "\n"  ,  "-", ":", "x", "y", "\n">>,
     <<"\f", "\n"  ,  "U+00A0", "b", "U+001F", "\n">>,
     <<"b", "\n"  ,  "1", ":", "x", "\n"  ,
       " ", "2", " ", ":", " ", "x", ",", " ", "x", "y", "\f", "\n">>,
     <<" ", "\n">>,
     <<"b", "\n"  ,  " ", "a", " ", "\n">>}

\* entries of a data directory: two records of bug a, a record of bug b, a
\* record file without a name line, a file that is no .dat file, and a
\* sub-directory whose name ends with .dat
DirEntries ==
    {[file_ |-> <<"1", ".", "d", "a", "t">>, isfile |-> TRUE,
      text |-> <<" ", "a", " ", "\n"  ,  "1", ":", "x", "\n">>],
     [file_ |-> <<"2", ".", "d", "a", "t">>, isfile |-> TRUE,
      text |-> <<" ", "a", " ", "\n"  ,  "-", ":", "x", "y", "\n">>],
     [file_ |-> <<"b", ".", "d", "a", "t">>, isfile |-> TRUE,
      text |-> <<"U+00A0", "b", "U+001F", "\n"  ,
                 " ", "2", " ", ":", " ", "x", ",", " ", "x", "y", "\f", "\n">>],
     [file_ |-> <<"0", ".", "d", "a", "t">>, isfile |-> TRUE,
      text |-> <<"\f", "\n">>],
     [file_ |-> <<"d", "a", "t">>, isfile |-> TRUE,
      text |-> <<"b", "\n"  ,  " ", "a", " ", "\n">>],
     [file_ |-> <<"x", ".", "d", "a", "t">>, isfile |-> FALSE, text |-> <<>>]}

\* the listings os.listdir can give of a directory of at most n entries
Dirs(n) ==
    {d \in SeqsUpTo(DirEntries, n) : \A i, j \in DOMAIN d : d[i] = d[j] => i = j}

\* the dicts dict_to_str is run on
IntDicts == UNION {[K -> {1, 2, 10}] : K \in SUBSET BugNames}

\* the command lines main is run with
MainArgs ==
    {[command |-> "import", dat_dir |-> d] : d \in Dirs(MaxDirEntries - 1)}
    \cup {[command |-> "alter", csv_file |-> c, dat_file |-> f] :
             c \in CsvFiles(MaxCmdCsvLines), f \in AlterFiles}
    \cup {[command |-> "count", csv_file |-> c, frequencies_file |-> f] :
             c \in CsvFiles(MaxCmdCsvLines), f \in FreqFiles}
    \cup {[command |-> "analyze", csv_file |-> c, count_coef_file |-> f,
           countries_file |-> g] :
             c \in CsvFiles(MaxCmdCsvLines), f \in FreqFiles, g \in RegionFiles}

None == [ok |-> FALSE, exc |-> "none"]

-----------------------------------------------------------------------------
(* The state machine: one function is called from the idle state.          *)

Init ==
    /\ pc = "idle"
    /\ op = "none"
    /\ bug_info_by_name = EmptyDict
    /\ csv_text = <<>>
    /\ in_file = <<>>
    /\ number_to_freq = EmptyDict
    /\ care_rate_per_region = EmptyDict
    /\ gen = walk_tree(EmptyDict)
    /\ yielded = EmptyDict
    /\ stdout = <<>>
    /\ result = None

\* render_to_csv(bug_info_by_name)
RenderToCsv ==
    /\ pc = "idle"
    /\ \E table \in Tables(MaxCells) :
          \E rendered \in {render_to_csv(table)} :
             /\ bug_info_by_name' = table
             /\ result' = rendered
             /\ pc' = IF rendered.ok THEN "done" ELSE "raised"
    /\ op' = "render_to_csv"
    /\ UNCHANGED <<csv_text, in_file, number_to_freq, care_rate_per_region, gen,
                   yielded, stdout>>

\* read_csv(csv_file)
ReadCsv ==
    /\ pc = "idle"
    /\ \E text \in CsvFiles(MaxCsvLines), dash_shared \in BOOLEAN :
          /\ csv_text' = text
          /\ result' = read_csv(text, dash_shared)
    /\ pc' = "done"
    /\ op' = "read_csv"
    /\ UNCHANGED <<bug_info_by_name, in_file, number_to_freq, care_rate_per_region,
                   gen, yielded, stdout>>

\* read_bug_info(dat_file_path)
ReadBugInfo ==
    /\ pc = "idle"
    /\ \E dat_file \in DatFiles(MaxDatLines) :
          /\ in_file' = dat_file
          /\ result' = read_bug_info(dat_file)
    /\ pc' = "done"
    /\ op' = "read_bug_info"
    /\ UNCHANGED <<bug_info_by_name, csv_text, number_to_freq, care_rate_per_region,
                   gen, yielded, stdout>>

\* read_mapping_files(path)
ReadMappingFiles ==
    /\ pc = "idle"
    /\ \E path \in MapFiles(MaxMapLines) :
          /\ in_file' = path
          /\ result' = read_mapping_files(path)
    /\ pc' = "done"
    /\ op' = "read_mapping_files"
    /\ UNCHANGED <<bug_info_by_name, csv_text, number_to_freq, care_rate_per_region,
                   gen, yielded, stdout>>

\* import_data(data_dir)
ImportData ==
    /\ pc = "idle"
    /\ \E data_dir \in Dirs(MaxDirEntries) :
          /\ in_file' = data_dir
          /\ result' = import_data(data_dir)
    /\ pc' = "done"
    /\ op' = "import_data"
    /\ UNCHANGED <<bug_info_by_name, csv_text, number_to_freq, care_rate_per_region,
                   gen, yielded, stdout>>

\* alter_csv(csv_file, data_file); bug_info_by_name keeps the table read
AlterCsv ==
    /\ pc = "idle"
    /\ \E text \in CsvFiles(MaxCmdCsvLines), dat_file \in AlterFiles,
          dash_shared \in BOOLEAN :
          \E table \in {read_csv(text, dash_shared)} :
              /\ csv_text' = text
              /\ in_file' = dat_file
              /\ bug_info_by_name' = IF table.ok THEN table.table ELSE EmptyDict
              /\ result' = alter_csv(text, dat_file, dash_shared)
    /\ pc' = "done"
    /\ op' = "alter_csv"
    /\ UNCHANGED <<number_to_freq, care_rate_per_region, gen, yielded, stdout>>

\* count_bugs(csv_file, freq_file)
CountBugs ==
    /\ pc = "idle"
    /\ \E text \in CsvFiles(MaxCmdCsvLines), freq_file \in FreqFiles :
          \E counted \in {count_bugs(text, freq_file)} :
              /\ csv_text' = text
              /\ in_file' = freq_file
              /\ result' = counted
              /\ pc' = IF counted.ok THEN "done" ELSE "raised"
    /\ op' = "count_bugs"
    /\ UNCHANGED <<bug_info_by_name, number_to_freq, care_rate_per_region, gen,
                   yielded, stdout>>

\* analyze_bugs(csv_file, coeff_file, regions_file)
AnalyzeBugs ==
    /\ pc = "idle"
    /\ \E text \in CsvFiles(MaxCmdCsvLines), coeff_file \in FreqFiles,
          regions_file \in RegionFiles :
          \E analyzed \in {analyze_bugs(text, coeff_file, regions_file)} :
              /\ csv_text' = text
              /\ in_file' = <<coeff_file, regions_file>>
              /\ result' = analyzed
              /\ pc' = IF analyzed.ok THEN "done" ELSE "raised"
    /\ op' = "analyze_bugs"
    /\ UNCHANGED <<bug_info_by_name, number_to_freq, care_rate_per_region, gen,
                   yielded, stdout>>

\* dict_to_str(dict_, pairs_separator=...)
DictToStr ==
    /\ pc = "idle"
    /\ \E dict_ \in IntDicts, pairs_separator \in {<<"\n">>, <<";">>} :
          \E order \in Orders(DOMAIN dict_) :
             /\ in_file' = dict_
             /\ result' = [ok |-> TRUE, text |-> dict_to_str(dict_, order, pairs_separator)]
    /\ pc' = "done"
    /\ op' = "dict_to_str"
    /\ UNCHANGED <<bug_info_by_name, csv_text, number_to_freq, care_rate_per_region,
                   gen, yielded, stdout>>

\* main(args)
Main ==
    /\ pc = "idle"
    /\ \E args \in MainArgs :
          \E run \in {main(args)} :
              /\ in_file' = args
              /\ result' = run
              /\ pc' = IF run.ok THEN "done" ELSE "raised"
    /\ op' = "main"
    /\ UNCHANGED <<bug_info_by_name, csv_text, number_to_freq, care_rate_per_region,
                   gen, yielded, stdout>>

\* the count of triple t in the bag of yielded triples goes up by one
yield(bag, t) ==
    [u \in DOMAIN bag \cup {t} |->
        (IF u \in DOMAIN bag THEN bag[u] ELSE 0) + (IF u = t THEN 1 ELSE 0)]

\* walk_tree(tree): the generator is created
WalkTree ==
    /\ pc = "idle"
    /\ \E tree \in Tables(MaxCells) :
          /\ bug_info_by_name' = tree
          /\ gen' = walk_tree(tree)
    /\ pc' = "walk"
    /\ op' = "walk_tree"
    /\ UNCHANGED <<csv_text, in_file, number_to_freq, care_rate_per_region,
                   yielded, stdout, result>>

\* next() of the generator yields a triple
WalkNext ==
    /\ pc = "walk"
    /\ \E nx \in walk_next(bug_info_by_name, gen) :
          /\ gen' = nx.gen
          /\ yielded' = yield(yielded, nx.triple)
    /\ UNCHANGED <<pc, op, bug_info_by_name, csv_text, in_file, number_to_freq,
                   care_rate_per_region, stdout, result>>

\* next() of the exhausted generator raises StopIteration: the walk is over
WalkStop ==
    /\ pc = "walk"
    /\ walk_exhausted(bug_info_by_name, gen)
    /\ pc' = "done"
    /\ UNCHANGED <<op, bug_info_by_name, csv_text, in_file, number_to_freq,
                   care_rate_per_region, gen, yielded, stdout, result>>

Next ==
    \/ RenderToCsv
    \/ ReadCsv
    \/ ReadBugInfo
    \/ ReadMappingFiles
    \/ ImportData
    \/ AlterCsv
    \/ CountBugs
    \/ AnalyzeBugs
    \/ DictToStr
    \/ Main
    \/ WalkTree
    \/ WalkNext
    \/ WalkStop

Spec == Init /\ [][Next]_vars

\* the record parser alone
NextRecord == ReadBugInfo

SpecRecord == Init /\ [][NextRecord]_vars

\* the lookup-file reader alone
NextMapping == ReadMappingFiles

SpecMapping == Init /\ [][NextMapping]_vars

\* the table writer and the table reader
NextCsv == RenderToCsv \/ ReadCsv

SpecCsv == Init /\ [][NextCsv]_vars

\* alter_csv alone
NextAlter == AlterCsv

SpecAlter == Init /\ [][NextAlter]_vars

\* count_bugs and analyze_bugs
NextReduce == CountBugs \/ AnalyzeBugs

SpecReduce == Init /\ [][NextReduce]_vars

\* the generator alone
NextWalk == WalkTree \/ WalkNext \/ WalkStop

SpecWalk == Init /\ [][NextWalk]_vars

-----------------------------------------------------------------------------
(* Vocabulary of the properties, stated apart from the operators above.    *)

IsBlank(line) == \A i \in DOMAIN line : IsSpace(line[i])

HasNo(line, c) == \A i \in DOMAIN line : line[i] # c

SetMin(S) == CHOOSE x \in S : \A y \in S : x <= y

SetMax(S) == CHOOSE x \in S : \A y \in S : y <= x

\* s without its leading and trailing whitespace
Trimmed(s) ==
    LET ink == {i \in DOMAIN s : ~IsSpace(s[i])}
    IN  IF ink = {} THEN <<>> ELSE SubSeq(s, SetMin(ink), SetMax(ink))

\* the indexes after which a line of the text ends
LineEnds(text) == {i \in DOMAIN text : ends_line(text, i)}

\* the lines of a text, in order, each with its terminator
Lines(text) ==
    LET ends == LineEnds(text)
    IN  [k \in 1..Cardinality(ends) |->
            LET e == CHOOSE e \in ends : Cardinality({i \in ends : i < e}) = k - 1
                before == {i \in ends : i < e}
            IN  SubSeq(text, IF before = {} THEN 1 ELSE SetMax(before) + 1, e)]

\* the index of the first non-blank line of a file that has one
NameLine(file) == SetMin({i \in DOMAIN file : ~IsBlank(file[i])})

\* the non-blank lines after the name line
DataLines(file) ==
    LET ink == {i \in DOMAIN file : ~IsBlank(file[i])}
    IN  IF ink = {} THEN {} ELSE ink \ {SetMin(ink)}

FirstColon(line) == SetMin({i \in DOMAIN line : line[i] = ":"})

\* the code of a data line: what stands before its first colon, trimmed
CodeOf(line) == Trimmed(SubSeq(line, 1, FirstColon(line) - 1))

\* the regions a data line lists: the comma-separated pieces after the colon, trimmed
ListedRegions(line) ==
    LET c == FirstColon(line)
        n == Len(line)
    IN  {Trimmed(SubSeq(line, seg[1], seg[2])) :
            seg \in {seg \in ((c + 1)..(n + 1)) \X (c..n) :
                        /\ seg[1] <= seg[2] + 1
                        /\ seg[1] = c + 1 \/ line[seg[1] - 1] = ","
                        /\ seg[2] = n \/ line[seg[2] + 1] = ","
                        /\ \A k \in seg[1]..seg[2] : line[k] # ","}}

\* the regions of a table: the keys of every bug's region map
RegionsOf(table) == UNION {DOMAIN table[b] : b \in DOMAIN table}

\* s < t in Python's order on strings: by code point, a proper prefix first
RECURSIVE StrLess(_, _)
StrLess(s, t) ==
    IF t = <<>> THEN FALSE
    ELSE IF s = <<>> THEN TRUE
    ELSE IF Head(s) = Head(t) THEN StrLess(Tail(s), Tail(t))
    ELSE Ord(Head(s)) < Ord(Head(t))

\* the associations (bug, region, value) of a table
Triples(table) ==
    UNION {{<<b, r, table[b][r]>> : r \in DOMAIN table[b]} : b \in DOMAIN table}

\* the sum of f over the keys S
RECURSIVE SumOf(_, _)
SumOf(f, S) ==
    IF S = {} THEN 0
    ELSE LET x == CHOOSE x \in S : TRUE IN f[x] + SumOf(f, S \ {x})

-----------------------------------------------------------------------------
(* Record parser.                                                          *)

\* C8: when read_bug_info returns, the name is the trimmed first non-blank
\* line; every region listed on a later non-blank line is a key of the region
\* map, mapped to the trimmed code of the last line that lists it; and the map
\* has no key that no such line lists (blank lines contribute nothing).
C8_ReadBugInfoResult ==
    (op = "read_bug_info" /\ result.ok) =>
        \A file \in {Lines(in_file)} :
        \A listed \in {[i \in DataLines(file) |-> ListedRegions(file[i])]} :
            /\ result.name = Trimmed(file[NameLine(file)])
            /\ \A i \in DOMAIN listed : \A region \in listed[i] :
                  /\ region \in DOMAIN result.number_by_country
                  /\ (\A j \in DOMAIN listed : j > i => region \notin listed[j])
                      => result.number_by_country[region] = CodeOf(file[i])
            /\ \A region \in DOMAIN result.number_by_country :
                  \E i \in DOMAIN listed : region \in listed[i]

\* a record whose first line is blank, whose name and code need trimming,
\* which lists one region on two lines with different codes, and one of whose
\* regions is followed by whitespace other than a blank or a line feed
C8_Witness ==
    /\ op = "read_bug_info"
    /\ result.ok
    /\ \E file \in {Lines(in_file)} :
           /\ NameLine(file) > 1
           /\ result.name # file[NameLine(file)]
           /\ \E i, j \in DataLines(file) :
                 /\ i < j
                 /\ ListedRegions(file[i]) \cap ListedRegions(file[j]) # {}
                 /\ CodeOf(file[i]) # CodeOf(file[j])
                 /\ CodeOf(file[j]) # SubSeq(file[j], 1, FirstColon(file[j]) - 1)
                 /\ file[j][Len(file[j])] \notin {" ", "\n"}

\* C9: read_bug_info raises, and returns nothing, when the file has no
\* non-blank line and when a non-blank line after the name line has no colon.
C9_ReadBugInfoFails ==
    (/\ op = "read_bug_info"
     /\ \E file \in {Lines(in_file)} :
            \/ \A i \in DOMAIN file : IsBlank(file[i])
            \/ \E data \in {DataLines(file)} : \E i \in data : HasNo(file[i], ":"))
    => ~result.ok

\* a record with a name line and a later data line without a colon, after a
\* well-formed data line
C9_Witness ==
    /\ op = "read_bug_info"
    /\ ~result.ok
    /\ \E file \in {Lines(in_file)} :
           \E i, j \in DataLines(file) :
               i < j /\ ~HasNo(file[i], ":") /\ HasNo(file[j], ":")

-----------------------------------------------------------------------------
(* Lookup-file reader.                                                     *)

\* the line has the form <digits><whitespace><text>, with some text
DigitsSpaceText(line) ==
    \E d \in 1..(Len(line) - 1) :
        /\ \A i \in 1..d : IsDigit(line[i])
        /\ IsSpace(line[d + 1])
        /\ \E k \in (d + 2)..Len(line) : ~IsSpace(line[k])

\* C6: read_mapping_files fails on every file with a line that is not of the
\* form <digits><whitespace><text>, a line of digits and whitespace without
\* text and a blank line included.
C6_RejectsLinesWithoutText ==
    (/\ op = "read_mapping_files"
     /\ \E file \in {Lines(in_file)} : \E i \in DOMAIN file : ~DigitsSpaceText(file[i]))
    => ~result.ok

-----------------------------------------------------------------------------
(* Aggregator.                                                             *)

\* the triples yielded so far, grouped back by name
GroupedBack(bag) ==
    [n \in {t[1] : t \in DOMAIN bag} |->
        [k \in {t[2] : t \in {u \in DOMAIN bag : u[1] = n}} |->
            (CHOOSE t \in DOMAIN bag : t[1] = n /\ t[2] = k)[3]]]

\* C7: walk_tree never yields a triple that is not a (key, value) pair of the
\* name's sub-mapping and never yields one twice; when it is exhausted it has
\* yielded every pair exactly once, so grouping the triples by name gives back
\* every non-empty sub-mapping, and the empty mapping yields nothing.
C7_WalkTreeYieldsEachPairOnce ==
    (op = "walk_tree") =>
        /\ DOMAIN yielded \subseteq Triples(bug_info_by_name)
        /\ \A t \in DOMAIN yielded : yielded[t] = 1
        /\ pc = "done" =>
              /\ DOMAIN yielded = Triples(bug_info_by_name)
              /\ GroupedBack(yielded) =
                    [n \in {n \in DOMAIN bug_info_by_name : bug_info_by_name[n] # EmptyDict}
                        |-> bug_info_by_name[n]]
              /\ bug_info_by_name = EmptyDict => yielded = EmptyDict

\* an exhausted walk over two names, one of them with two pairs
C7_Witness ==
    /\ op = "walk_tree"
    /\ pc = "done"
    /\ Cardinality(DOMAIN yielded) = 3
    /\ Cardinality({t[1] : t \in DOMAIN yielded}) = 2

-----------------------------------------------------------------------------
(* Table writer and reader.                                                *)

\* the rows a CSV text holds
RowsOf(text) == csv_reader(text, DEFAULT_CSV_DELIMITER).rows

\* C5: render_to_csv returns a text that holds the header row (the region
\* label, then the bug names, each once, in the order the table gives them)
\* and then one row per region of the union of the bugs' regions, in ascending
\* lexicographic order of region; the cell of region r under bug b is the
\* table's value for (b, r), and '-' when b has no r.
C5_RenderToCsvRows ==
    (op = "render_to_csv") =>
        /\ result.ok
        /\ LET rows == RowsOf(result.text)
               table == bug_info_by_name
               names == Tail(rows[1])
           IN  /\ Len(rows) = 1 + Cardinality(RegionsOf(table))
               /\ rows[1][1] = REGION_CELL_NAME
               /\ {names[i] : i \in DOMAIN names} = DOMAIN table
               /\ Len(names) = Cardinality(DOMAIN table)
               /\ {rows[i][1] : i \in 2..Len(rows)} = RegionsOf(table)
               /\ \A i \in 2..(Len(rows) - 1) : StrLess(rows[i][1], rows[i + 1][1])
               /\ \A i \in 2..Len(rows) :
                     /\ Len(rows[i]) = 1 + Len(names)
                     /\ \A j \in DOMAIN names :
                           rows[i][j + 1] =
                               IF rows[i][1] \in DOMAIN table[names[j]]
                               THEN table[names[j]][rows[i][1]] ELSE <<"-">>

\* a value the round trip claims to preserve: no delimiter, no newline
PlainValue(v) == \A i \in DOMAIN v : v[i] \notin {DEFAULT_CSV_DELIMITER, "\n", "\r"}

\* C3: for a table of plain values render_to_csv returns a text, and read_csv
\* of that text gives back the associations (bug, region) -> value of the
\* table, none lost, added or changed.
C3_RoundTripExact ==
    (/\ op = "render_to_csv"
     /\ \A t \in Triples(bug_info_by_name) : PlainValue(t[3]))
    => /\ result.ok
       /\ \A dash_shared \in BOOLEAN :
             LET back == read_csv(result.text, dash_shared)
             IN  back.ok /\ Triples(back.table) = Triples(bug_info_by_name)

-----------------------------------------------------------------------------
(* Commands.                                                               *)

\* C10: alter_csv returns the table read from the CSV file with the record's
\* name mapped to the record's region map, whether or not the name was there,
\* and with every other name's entry as read.
C10_AlterCsvReplacesEntry ==
    (op = "alter_csv" /\ result.ok) =>
        LET info == read_bug_info(in_file)
        IN  /\ info.ok
            /\ DOMAIN result.table = DOMAIN bug_info_by_name \cup {info.name}
            /\ result.table[info.name] = info.number_by_country
            /\ \A b \in DOMAIN bug_info_by_name :
                  b # info.name => result.table[b] = bug_info_by_name[b]

\* the record's bug was in the table with a region the record does not list,
\* beside another bug, and a form feed ends a line of the record
C10_Witness ==
    /\ op = "alter_csv"
    /\ result.ok
    /\ \E i \in DOMAIN in_file : in_file[i] = "\f"
    /\ LET info == read_bug_info(in_file)
       IN  /\ info.name \in DOMAIN bug_info_by_name
           /\ DOMAIN bug_info_by_name[info.name] \ DOMAIN info.number_by_country # {}
           /\ \A t \in Triples(bug_info_by_name) : t[3] # <<"-">>
           /\ DOMAIN bug_info_by_name \ {info.name} # {}

\* the table count_bugs and analyze_bugs are to read from the CSV file
TableGiven(dash_shared) == read_csv(csv_text, dash_shared)

\* every value of the table is a key of the frequency map
ValuesKnown(table, freq) == \A t \in Triples(table) : t[3] \in DOMAIN freq

\* the sum of the frequencies of the values the bugs have for region r, a
\* value the frequency map lacks counting for zero
RegionTotal(table, freq, r) ==
    LET bugs == {b \in DOMAIN table : r \in DOMAIN table[b]}
    IN  SumOf([b \in bugs |-> IF table[b][r] \in DOMAIN freq THEN freq[table[b][r]] ELSE 0],
              bugs)

\* C4: for a CSV file and a frequency file that can be read, every value of
\* the table being a key of the frequency map, count_bugs returns the mapping
\* whose keys are the regions of the table, each mapped to the sum of the
\* frequencies of the bugs' values for it.
C4_CountBugsTotals ==
    (op = "count_bugs") =>
        \A dash_shared \in BOOLEAN :
            LET given == TableGiven(dash_shared)
                freq == read_mapping_files(in_file)
            IN  (given.ok /\ freq.ok /\ ValuesKnown(given.table, freq.mapping)) =>
                    /\ result.ok
                    /\ DOMAIN result.value = RegionsOf(given.table)
                    /\ \A r \in DOMAIN result.value :
                          result.value[r] = RegionTotal(given.table, freq.mapping, r)

\* C1: for a CSV file and a frequency file that can be read, the table having
\* a value that is not a key of the frequency map, the triple is reported and
\* the command goes on: count_bugs returns, and in the totals it returns such
\* a triple counts for zero.
C1_CountBugsToleratesMiss ==
    (op = "count_bugs") =>
        \A dash_shared \in BOOLEAN :
            LET given == TableGiven(dash_shared)
                freq == read_mapping_files(in_file)
            IN  (given.ok /\ freq.ok /\ ~ValuesKnown(given.table, freq.mapping)) =>
                    /\ result.ok
                    /\ \A t \in Triples(given.table) :
                          t[3] \notin DOMAIN freq.mapping
                          => \E i \in DOMAIN stdout :
                                stdout[i] = [what |-> "miss", value |-> t]
                    /\ \A r \in RegionsOf(given.table) :
                          (IF r \in DOMAIN result.value THEN result.value[r] ELSE 0)
                              = RegionTotal(given.table, freq.mapping, r)

\* the weighted sum of bug b: region weight (0 for an unknown region) times
\* the frequency of the value, over the bug's regions
BugRisk(table, freq, rate, b) ==
    SumOf([r \in DOMAIN table[b] |->
              (IF r \in DOMAIN rate THEN rate[r] ELSE 0) * freq[table[b][r]]],
          DOMAIN table[b])

\* C2: for a CSV file and two lookup files that can be read, every value of
\* the table being a key of the frequency map, analyze_bugs returns the
\* mapping whose keys are the bug names, each mapped to the bug's weighted sum.
C2_AnalyzeBugsRisk ==
    (op = "analyze_bugs") =>
        \A dash_shared \in BOOLEAN :
            LET given == TableGiven(dash_shared)
                freq == read_mapping_files(in_file[1])
                rate == read_mapping_files(in_file[2])
            IN  (given.ok /\ freq.ok /\ rate.ok
                 /\ ValuesKnown(given.table, freq.mapping)) =>
                    /\ result.ok
                    /\ DOMAIN result.value = DOMAIN given.table
                    /\ \A b \in DOMAIN result.value :
                          result.value[b] = BugRisk(given.table, freq.mapping,
                                                    rate.mapping, b)

=============================================================================
